---- MODULE Spec2Model ----
(***************************************************************************)
(* Model of internal/source/source.go: a Source owns one Lua state, an     *)
(* HTTP client and a header set.  Every public operation calls a script    *)
(* entry point that describes a request, builds and performs the request,  *)
(* and calls a second entry point on the response.                         *)
(*                                                                         *)
(* The script is untrusted: each entry-point call either fails or returns  *)
(* an arbitrary Lua value, drawn here from small sets.  The network is     *)
(* nondeterministic as well.                                               *)
(***************************************************************************)
EXTENDS Integers, Sequences, FiniteSets, TLC

VARIABLES
    phase,    \* "new" | "loaded" | "loadError" | "loadPanic"
    Name,     \* Source.Name
    URL,      \* Source.URL
    lstate,   \* Source.l: "none" | "open" | "closed"
    stack,    \* value stack of Source.l
    header,   \* Source.header
    last,     \* the last public call: its inputs, its result, the request it sent
    pc,       \* position of each concurrent caller
    loc       \* locals of each concurrent caller

vars == <<phase, Name, URL, lstate, stack, header, last, pc, loc>>

----------------------------------------------------------------------------
(* Bounds *)

MaxStack == 4     \* operations start only while their two pushes fit
MaxList  == 2     \* length of the generated list results
MaxHdr   == 2     \* entries of the generated descriptor header tables
MaxLogin == 2     \* entries of the generated login results

----------------------------------------------------------------------------
(* Lua values *)

Nil == [t |-> "nil"]
Str(s) == [t |-> "str", s |-> s]
Num(n) == [t |-> "num", n |-> n]
\* a table: its array part, and its string-keyed part as <<key, value>> pairs
\* in the order ForEach visits them
Tbl(arr, hash) == [t |-> "tbl", arr |-> arr, hash |-> hash]
\* a userdata wrapping a pointer to a Go record
UD(ty, rec) == [t |-> "ud", ty |-> ty, rec |-> rec]

\* a table or userdata left on the stack by a call that has returned: the
\* object belongs to the script, which may rewrite it in any later call, so
\* only its kind is known
Ref(kind) == [t |-> "ref", k |-> kind]

Rec(id, source, title) == [ID |-> id, Source |-> source, Title |-> title]

NumStr(n) == IF n \in 0..9
             THEN <<"0", "1", "2", "3", "4", "5", "6", "7", "8", "9">>[n + 1]
             ELSE "number"

\* LValue.String()
LVString(v) ==
    CASE v.t = "str" -> v.s
      [] v.t = "num" -> NumStr(v.n)
      [] v.t = "nil" -> "nil"
      [] v.t = "tbl" -> "table: 0x"
      [] v.t = "ud"  -> "userdata: 0x"
      [] v.t = "ref" -> IF v.k = "tbl" THEN "table: 0x" ELSE "userdata: 0x"

\* Get reading the bottom of the stack whatever the index
GetBottom(stk, idx) == IF stk = <<>> THEN Nil ELSE stk[1]

\* LState.Get(idx): idx = -1 is the top, idx = 1 the bottom; LNil when absent
Get(stk, idx) ==
    IF idx < 0
    THEN (IF Len(stk) + idx + 1 >= 1 THEN stk[Len(stk) + idx + 1] ELSE Nil)
    ELSE (IF idx <= Len(stk) THEN stk[idx] ELSE Nil)

\* LState.Pop(n)
Pop(stk, n) == SubSeq(stk, 1, Len(stk) - n)

\* LTable.RawGetString(key)
RECURSIVE Lookup(_, _)
Lookup(pairs, key) ==
    IF pairs = <<>> THEN Nil
    ELSE IF pairs[1][1] = key THEN pairs[1][2]
    ELSE Lookup(Tail(pairs), key)

RawGetString(tb, key) == Lookup(tb.hash, key)

\* LTable.ForEach: the <<key, value>> pairs in visiting order
ForEach(tb) ==
    [i \in 1..Len(tb.arr) |-> <<Num(i), tb.arr[i]>>]
    \o [i \in 1..Len(tb.hash) |-> <<Str(tb.hash[i][1]), tb.hash[i][2]>>]

----------------------------------------------------------------------------
(* http.Header: a map from canonical names to value lists *)

\* textproto.CanonicalMIMEHeaderKey on the names used here
Canon(k) ==
    CASE k = "user-agent"   -> "User-Agent"
      [] k = "cookie"       -> "Cookie"
      [] k = "content-type" -> "Content-Type"
      [] OTHER              -> k

EmptyHeader == [x \in {} |-> <<>>]

HValues(h, k) == IF Canon(k) \in DOMAIN h THEN h[Canon(k)] ELSE <<>>

HGet(h, k) == IF HValues(h, k) = <<>> THEN "" ELSE HValues(h, k)[1]

HDel(h, k) == [x \in DOMAIN h \ {Canon(k)} |-> h[x]]

HAdd(h, k, v) ==
    [x \in DOMAIN h \cup {Canon(k)} |->
        IF x = Canon(k) THEN Append(HValues(h, k), v) ELSE h[x]]

HSet(h, k, v) ==
    [x \in DOMAIN h \cup {Canon(k)} |-> IF x = Canon(k) THEN <<v>> ELSE h[x]]

----------------------------------------------------------------------------
(* Script calls *)

Ok(v) == [v |-> v, ok |-> TRUE]
Fault == [v |-> Nil, ok |-> FALSE]

\* CallByParam with NRet 1 and Protect: a fault (a missing entry point
\* included) is returned as an error with the stack as before; otherwise the
\* one result is left on the stack.
callLuaFunc(stk, out) ==
    IF out.ok
    THEN [stack |-> Append(stk, out.v), err |-> FALSE]
    ELSE [stack |-> stk, err |-> TRUE]

----------------------------------------------------------------------------
(* Building and performing the request *)

DefaultUserAgent == "Tanoshi/0.1.0"
Multipart == "multipart/form-data"

headerBuilder(hdr) == HSet(hdr, "User-Agent", DefaultUserAgent)

\* SetAll with Add in place of Set
RECURSIVE SetAllAdd(_, _)
SetAllAdd(h, pairs) ==
    IF pairs = <<>> THEN h
    ELSE SetAllAdd(HAdd(h, LVString(pairs[1][1]), LVString(pairs[1][2])), Tail(pairs))

\* headers.ForEach(headerMap.Set(k.String(), v.String()))
RECURSIVE SetAll(_, _)
SetAll(h, pairs) ==
    IF pairs = <<>> THEN h
    ELSE SetAll(HSet(h, LVString(pairs[1][1]), LVString(pairs[1][2])), Tail(pairs))

\* data.ForEach(writer.WriteField(k.String(), v.String()))
Fields(tb) == [i \in 1..Len(ForEach(tb)) |->
                  <<LVString(ForEach(tb)[i][1]), LVString(ForEach(tb)[i][2])>>]

\* FormDataContentType without the boundary parameter
FormDataContentTypeBare(bnd) == "multipart/form-data"

\* multipart.Writer.FormDataContentType for a writer with boundary bnd
FormDataContentType(bnd) == "multipart/form-data; boundary=" \o bnd

EmptyBody == [enc |-> "none", fields |-> <<>>]
NoReq == [header |-> EmptyHeader, method |-> "", url |-> "", body |-> EmptyBody]

\* http.NewRequest accepts a method that is a token ("" means GET) and a URL
\* that url.Parse accepts
ValidMethod(m) == m \notin {"BAD METHOD"}
ParseOK(u) == u \notin {":bad"}
Scheme(u) == IF u \in {"http://site/a", "http://site/b"} THEN "http" ELSE ""

\* createRequest reading a value that is no table as an empty descriptor
createRequestLax(stk, hdr, bnd) ==
    LET top == Get(stk, -1)
        lv  == IF top.t = "tbl" THEN top ELSE Tbl(<<>>, <<>>)
        headers   == RawGetString(lv, "header")
        base      == headerBuilder(hdr)
        headerMap == IF headers.t = "tbl" THEN SetAll(base, ForEach(headers))
                     ELSE base
        contentType == HGet(headerMap, "Content-Type")
        data      == RawGetString(lv, "data")
        encode    == data.t = "tbl" /\ contentType = Multipart
        buffer    == IF encode
                     THEN [enc |-> "multipart", fields |-> Fields(data)]
                     ELSE EmptyBody
        finalMap  == IF encode
                     THEN HSet(headerMap, "Content-Type", FormDataContentType(bnd))
                     ELSE headerMap
        method    == LVString(RawGetString(lv, "method"))
        url       == LVString(RawGetString(lv, "url"))
    IN IF ValidMethod(method) /\ ParseOK(url)
       THEN [ok |-> TRUE,
             req |-> [header |-> finalMap,
                      method |-> IF method = "" THEN "GET" ELSE method, url |-> url, body |-> buffer]]
       ELSE [ok |-> FALSE, req |-> NoReq]

\* the descriptor is the value on top of the stack; the request gets the
\* built header set, the encoded body, and the method and url fields as
\* strings
createRequest(stk, hdr, bnd) ==
    LET lv == Get(stk, -1) IN
    IF lv.t # "tbl" THEN [ok |-> FALSE, req |-> NoReq]
    ELSE
      LET headers   == RawGetString(lv, "header")
          base      == headerBuilder(hdr)
          headerMap == IF headers.t = "tbl" THEN SetAll(base, ForEach(headers))
                       ELSE base
          contentType == HGet(headerMap, "Content-Type")
          data      == RawGetString(lv, "data")
          encode    == data.t = "tbl" /\ contentType = Multipart
          buffer    == IF encode
                       THEN [enc |-> "multipart", fields |-> Fields(data)]
                       ELSE EmptyBody
          finalMap  == IF encode
                       THEN HSet(headerMap, "Content-Type", FormDataContentType(bnd))
                       ELSE headerMap
          method    == LVString(RawGetString(lv, "method"))
          url       == LVString(RawGetString(lv, "url"))
      IN IF ValidMethod(method) /\ ParseOK(url)
         THEN [ok |-> TRUE,
               req |-> [header |-> finalMap,
                        method |-> IF method = "" THEN "GET" ELSE method, url |-> url, body |-> buffer]]
         ELSE [ok |-> FALSE, req |-> NoReq]

NoResp == [Header |-> EmptyHeader, Body |-> ""]

\* http.Client.Do refuses a URL without an http(s) scheme before anything is
\* sent; otherwise the network decides (net): a response, a connection error,
\* or an error while reading the body.
doRequest(req, net) ==
    IF Scheme(req.url) \notin {"http", "https"}
    THEN [ok |-> FALSE, sent |-> FALSE, resp |-> NoResp]
    ELSE IF net.kind = "ok"
    THEN [ok |-> TRUE, sent |-> TRUE,
          resp |-> [Header |-> net.Header, Body |-> net.Body]]
    ELSE [ok |-> FALSE, sent |-> TRUE, resp |-> NoResp]

\* sourceRequest performing the request a second time when the first fails
sourceRequestRetry(stk, hdr, dOut, bnd, net) ==
    LET c == callLuaFunc(stk, dOut) IN
    IF c.err
    THEN [stack |-> c.stack, err |-> "Script", req |-> NoReq, sent |-> FALSE,
          resp |-> NoResp, built |-> FALSE, steps |-> <<"describe">>]
    ELSE
      LET r == createRequest(c.stack, hdr, bnd) IN
      IF ~r.ok
      THEN [stack |-> c.stack, err |-> "Protocol", req |-> NoReq, sent |-> FALSE,
            resp |-> NoResp, built |-> FALSE, steps |-> <<"describe">>]
      ELSE
        LET d == doRequest(r.req, net) IN
        [stack |-> c.stack, err |-> IF d.ok THEN "none" ELSE "Transport",
         req |-> r.req, sent |-> d.sent, resp |-> d.resp, built |-> TRUE,
         steps |-> IF d.ok THEN <<"describe", "http">>
                   ELSE <<"describe", "http", "http">>]

\* The six ...Request methods: call the describing entry point, build the
\* request from the value on top of the stack, perform it.  The first error
\* is returned.  steps lists the calls made: "describe" for the script call,
\* "http" for httpClient.Do.
sourceRequest(stk, hdr, dOut, bnd, net) ==
    LET c == callLuaFunc(stk, dOut) IN
    IF c.err
    THEN [stack |-> c.stack, err |-> "Script", req |-> NoReq, sent |-> FALSE,
          resp |-> NoResp, built |-> FALSE, steps |-> <<"describe">>]
    ELSE
      LET r == createRequest(c.stack, hdr, bnd) IN
      IF ~r.ok
      THEN [stack |-> c.stack, err |-> "Protocol", req |-> NoReq, sent |-> FALSE,
            resp |-> NoResp, built |-> FALSE, steps |-> <<"describe">>]
      ELSE
        LET d == doRequest(r.req, net) IN
        [stack |-> c.stack, err |-> IF d.ok THEN "none" ELSE "Transport",
         req |-> r.req, sent |-> d.sent, resp |-> d.resp, built |-> TRUE,
         steps |-> <<"describe", "http">>]

getLatestUpdatesRequest(stk, hdr, dOut, bnd, net) == sourceRequest(stk, hdr, dOut, bnd, net)
getMangaDetailsRequest(stk, hdr, dOut, bnd, net) == sourceRequest(stk, hdr, dOut, bnd, net)
getChaptersRequest(stk, hdr, dOut, bnd, net) == sourceRequest(stk, hdr, dOut, bnd, net)
getChapterRequest(stk, hdr, dOut, bnd, net) == sourceRequest(stk, hdr, dOut, bnd, net)
loginRequest(stk, hdr, dOut, bnd, net) == sourceRequest(stk, hdr, dOut, bnd, net)
fetchMangaRequest(stk, hdr, dOut, bnd, net) == sourceRequest(stk, hdr, dOut, bnd, net)

----------------------------------------------------------------------------
(* Interpreting the response *)

\* v unwraps to a record of Go type ty
IsRecord(v, ty) == v.t = "ud" /\ v.ty = ty

\* the assignment through the pointer held by the userdata
SetSource(v, name) == UD(v.ty, [v.rec EXCEPT !.Source = name])
SetID(v, id) == UD(v.ty, [v.rec EXCEPT !.ID = id])

\* the loop body of the list parsers: keep the handles of type ty, stamping
\* the source name when stamp holds
RECURSIVE Collect(_, _, _, _)
Collect(pairs, ty, name, stamp) ==
    IF pairs = <<>> THEN <<>>
    ELSE LET v == pairs[1][2]
             rest == Collect(Tail(pairs), ty, name, stamp)
         IN IF IsRecord(v, ty)
            THEN <<IF stamp THEN SetSource(v, name) ELSE v>> \o rest
            ELSE rest

\* the records are shared with the script: the table on the stack sees the
\* stamped records
Stamped(v, ty, name) == IF IsRecord(v, ty) THEN SetSource(v, name) ELSE v

StampTable(tb, ty, name) ==
    Tbl([i \in 1..Len(tb.arr) |-> Stamped(tb.arr[i], ty, name)],
        [i \in 1..Len(tb.hash) |->
            <<tb.hash[i][1], Stamped(tb.hash[i][2], ty, name)>>])

SetTop(stk, v) == [stk EXCEPT ![Len(stk)] = v]

\* the statements after the script call in getLatestUpdates, getChapters
\* (stamp) and fetchManga (no stamp): read the top of the stack, keep the
\* records of type ty; a value that is no table gives the empty list
listRead(stk, name, ty, stamp) ==
    LET lv == Get(stk, -1) IN
    IF lv.t = "tbl"
    THEN [stack |-> IF stamp THEN SetTop(stk, StampTable(lv, ty, name)) ELSE stk,
          err |-> "none",
          result |-> Collect(ForEach(lv), ty, name, stamp)]
    ELSE [stack |-> stk, err |-> "none", result |-> <<>>]

\* listParse failing on an element that is no record of type ty
listParseStrict(stk, name, pOut, ty, stamp) ==
    LET c == callLuaFunc(stk, pOut) IN
    IF c.err THEN [stack |-> c.stack, err |-> "Script", result |-> <<>>]
    ELSE
      LET lv == Get(c.stack, -1) IN
      IF lv.t = "tbl" /\ \A i \in 1..Len(ForEach(lv)) : IsRecord(ForEach(lv)[i][2], ty)
      THEN listRead(c.stack, name, ty, stamp)
      ELSE [stack |-> c.stack, err |-> "Protocol", result |-> <<>>]

listParse(stk, name, pOut, ty, stamp) ==
    LET c == callLuaFunc(stk, pOut) IN
    IF c.err THEN [stack |-> c.stack, err |-> "Script", result |-> <<>>]
    ELSE listRead(c.stack, name, ty, stamp)

getLatestUpdates(stk, name, pOut) == listParse(stk, name, pOut, "Manga", TRUE)
getChapters(stk, name, pOut) == listParse(stk, name, pOut, "Chapter", TRUE)
fetchManga(stk, name, pOut) == listParse(stk, name, pOut, "Manga", FALSE)

\* the statements after the script call in getMangaDetails: the two type
\* assertions are unchecked, a value that is not a *Manga handle panics
mangaRead(stk, name) ==
    LET lv == Get(stk, -1) IN
    IF IsRecord(lv, "Manga")
    THEN [stack |-> SetTop(stk, SetSource(lv, name)), err |-> "none",
          result |-> <<SetSource(lv, name)>>]
    ELSE [stack |-> stk, err |-> "Panic", result |-> <<>>]

\* getMangaDetails without the source stamp
getMangaDetailsNoStamp(stk, name, pOut) ==
    LET c == callLuaFunc(stk, pOut) IN
    IF c.err THEN [stack |-> c.stack, err |-> "Script", result |-> <<>>]
    ELSE
      LET lv == Get(c.stack, -1) IN
      IF IsRecord(lv, "Manga")
      THEN [stack |-> c.stack, err |-> "none", result |-> <<lv>>]
      ELSE [stack |-> c.stack, err |-> "Panic", result |-> <<>>]

getMangaDetails(stk, name, pOut) ==
    LET c == callLuaFunc(stk, pOut) IN
    IF c.err THEN [stack |-> c.stack, err |-> "Script", result |-> <<>>]
    ELSE mangaRead(c.stack, name)

\* the statements after the script call in getChapter: as in getMangaDetails,
\* without the source stamp
chapterRead(stk) ==
    LET lv == Get(stk, -1) IN
    IF IsRecord(lv, "Chapter")
    THEN [stack |-> stk, err |-> "none", result |-> <<lv>>]
    ELSE [stack |-> stk, err |-> "Panic", result |-> <<>>]

getChapter(stk, pOut) ==
    LET c == callLuaFunc(stk, pOut) IN
    IF c.err THEN [stack |-> c.stack, err |-> "Script", result |-> <<>>]
    ELSE chapterRead(c.stack)

\* values.ForEach(s.header.Add(k.String(), w.String()))
RECURSIVE AddAll(_, _, _)
AddAll(h, k, pairs) ==
    IF pairs = <<>> THEN h
    ELSE AddAll(HAdd(h, k, LVString(pairs[1][2])), k, Tail(pairs))

\* ReplaceAll without the Del
RECURSIVE ReplaceAllAppend(_, _)
ReplaceAllAppend(h, pairs) ==
    IF pairs = <<>> THEN h
    ELSE LET k == LVString(pairs[1][1])
             v == pairs[1][2]
         IN ReplaceAllAppend(IF v.t = "tbl" THEN AddAll(h, k, ForEach(v)) ELSE h,
                             Tail(pairs))

\* tbl.ForEach: a key whose value is a table is deleted, then refilled
RECURSIVE ReplaceAll(_, _)
ReplaceAll(h, pairs) ==
    IF pairs = <<>> THEN h
    ELSE LET k == LVString(pairs[1][1])
             v == pairs[1][2]
         IN ReplaceAll(IF v.t = "tbl" THEN AddAll(HDel(h, k), k, ForEach(v)) ELSE h,
                       Tail(pairs))

\* loginRead emptying the session header before it looks at the result
loginReadReset(stk, hdr) ==
    LET lv == Get(stk, -1) IN
    IF lv.t = "tbl"
    THEN [stack |-> stk, header |-> ReplaceAll(EmptyHeader, ForEach(lv)), err |-> "none"]
    ELSE [stack |-> stk, header |-> EmptyHeader, err |-> "Protocol"]

\* the statements after the script call in login
loginRead(stk, hdr) ==
    LET lv == Get(stk, -1) IN
    IF lv.t = "tbl"
    THEN [stack |-> stk, header |-> ReplaceAll(hdr, ForEach(lv)), err |-> "none"]
    ELSE [stack |-> stk, header |-> hdr, err |-> "Protocol"]

login(stk, hdr, pOut) ==
    LET c == callLuaFunc(stk, pOut) IN
    IF c.err THEN [stack |-> c.stack, header |-> hdr, err |-> "Script"]
    ELSE loginRead(c.stack, hdr)

----------------------------------------------------------------------------
(* The public operations, as functions of the state and of what the script *)
(* and the network answer.  err is "none", or the phase that failed:       *)
(* "Script" (callLuaFunc), "Protocol" (createRequest, login's table        *)
(* check), "Transport" (doRequest), "Panic" (a Go panic).                  *)

\* the chain stopped in the request phase q
Aborted(q, hdr) ==
    [stack |-> q.stack, header |-> hdr, err |-> q.err, req |-> q.req,
     sent |-> q.sent, resp |-> q.resp, built |-> q.built, steps |-> q.steps,
     result |-> <<>>, nParse |-> 0]

\* Parsed when the request header is the session header itself, not a clone
ParsedShared(q, stk, hdr, err, result) ==
    [stack |-> stk, header |-> q.req.header, err |-> err, req |-> q.req,
     sent |-> q.sent, resp |-> q.resp, built |-> q.built, steps |-> Append(q.steps, "parse"),
     result |-> result, nParse |-> 1]

\* the chain reached the parse phase
Parsed(q, stk, hdr, err, result) ==
    [stack |-> stk, header |-> hdr, err |-> err, req |-> q.req,
     sent |-> q.sent, resp |-> q.resp, built |-> q.built, steps |-> Append(q.steps, "parse"),
     result |-> result, nParse |-> 1]

GetLatestUpdates(stk, hdr, name, dOut, bnd, net, pOut) ==
    LET q == getLatestUpdatesRequest(stk, hdr, dOut, bnd, net) IN
    IF q.err # "none" THEN Aborted(q, hdr)
    ELSE LET p == getLatestUpdates(q.stack, name, pOut)
         IN Parsed(q, p.stack, hdr, p.err, p.result)

GetMangaDetails(stk, hdr, name, id, dOut, bnd, net, pOut) ==
    LET q == getMangaDetailsRequest(stk, hdr, dOut, bnd, net) IN
    IF q.err # "none" THEN Aborted(q, hdr)
    ELSE LET p == getMangaDetails(q.stack, name, pOut) IN
         IF p.err # "none" THEN Parsed(q, p.stack, hdr, p.err, <<>>)
         ELSE LET manga == SetID(p.result[1], id)
              IN Parsed(q, SetTop(p.stack, manga), hdr, "none", <<manga>>)

GetChapters(stk, hdr, name, dOut, bnd, net, pOut) ==
    LET q == getChaptersRequest(stk, hdr, dOut, bnd, net) IN
    IF q.err # "none" THEN Aborted(q, hdr)
    ELSE LET p == getChapters(q.stack, name, pOut)
         IN Parsed(q, p.stack, hdr, p.err, p.result)

\* GetChapter without the copy of the caller's ID
GetChapterNoCopy(stk, hdr, id, dOut, bnd, net, pOut) ==
    LET q == getChapterRequest(stk, hdr, dOut, bnd, net) IN
    IF q.err # "none" THEN Aborted(q, hdr)
    ELSE LET p == getChapter(q.stack, pOut)
         IN Parsed(q, p.stack, hdr, p.err, p.result)

GetChapter(stk, hdr, id, dOut, bnd, net, pOut) ==
    LET q == getChapterRequest(stk, hdr, dOut, bnd, net) IN
    IF q.err # "none" THEN Aborted(q, hdr)
    ELSE LET p == getChapter(q.stack, pOut) IN
         IF p.err # "none" THEN Parsed(q, p.stack, hdr, p.err, <<>>)
         ELSE LET chapter == SetID(p.result[1], id)
              IN Parsed(q, SetTop(p.stack, chapter), hdr, "none", <<chapter>>)

Login(stk, hdr, dOut, bnd, net, pOut) ==
    LET q == loginRequest(stk, hdr, dOut, bnd, net) IN
    IF q.err # "none" THEN Aborted(q, hdr)
    ELSE LET p == login(q.stack, hdr, pOut)
         IN Parsed(q, p.stack, p.header, p.err, <<>>)

FetchManga(stk, hdr, name, dOut, bnd, net, pOut) ==
    LET q == fetchMangaRequest(stk, hdr, dOut, bnd, net) IN
    IF q.err # "none" THEN Aborted(q, hdr)
    ELSE LET p == fetchManga(q.stack, name, pOut)
         IN Parsed(q, p.stack, hdr, p.err, p.result)

----------------------------------------------------------------------------
(* Loading *)

\* getName and getBaseURL: CheckString(1) reads the bottom of the stack,
\* converts a number, and raises outside any protected call (a Go panic) on
\* any other value
getString(stk, out) ==
    LET c == callLuaFunc(stk, out) IN
    IF c.err THEN [stack |-> c.stack, s |-> "", err |-> "Script"]
    ELSE LET v == Get(c.stack, 1) IN
         IF v.t \in {"str", "num"}
         THEN [stack |-> Pop(c.stack, 1), s |-> LVString(v), err |-> "none"]
         ELSE [stack |-> c.stack, s |-> "", err |-> "Panic"]

getName(stk, out) == getString(stk, out)
getBaseURL(stk, out) == getString(stk, out)

Loaded(ph, name, url, ls, stk, err) ==
    [phase |-> ph, Name |-> name, URL |-> url, lstate |-> ls, stack |-> stk,
     err |-> err]

\* sc: what DoFile does (fails, or leaves the chunk's return values on the
\* stack) and what the name and base_url entry points answer
LoadSourceFromPath(sc) ==
    IF ~sc.doFile.ok THEN Loaded("loadError", "", "", "open", <<>>, "Load")
    ELSE
      LET n == getName(sc.doFile.rets, sc.name) IN
      IF n.err = "Script" THEN Loaded("loadError", "", "", "closed", n.stack, "Load")
      ELSE IF n.err = "Panic" THEN Loaded("loadPanic", "", "", "open", n.stack, "Panic")
      ELSE
        LET u == getBaseURL(n.stack, sc.baseURL) IN
        IF u.err = "Script" THEN Loaded("loadError", n.s, "", "closed", u.stack, "Load")
        ELSE IF u.err = "Panic" THEN Loaded("loadPanic", n.s, "", "open", u.stack, "Panic")
        ELSE Loaded("loaded", n.s, u.s, "open", u.stack, "none")

----------------------------------------------------------------------------
(* What scripts and the network may answer *)

\* the sequences over S of length at most n whose first components differ
SeqsUpTo(S, n) == UNION {[1..k -> S] : k \in 0..n}
DistinctKeys(s) == \A i, j \in 1..Len(s) : i # j => s[i][1] # s[j][1]
PairSeqs(S, n) == {s \in SeqsUpTo(S, n) : DistinctKeys(s)}

Boundaries == {"b1", "b2"}

RespHeader == [x \in {"Set-Cookie"} |-> <<"sid=1">>]
NetOK      == [kind |-> "ok", Header |-> RespHeader, Body |-> "body"]
NetConnErr == [kind |-> "connErr", Header |-> EmptyHeader, Body |-> ""]
NetReadErr == [kind |-> "readErr", Header |-> EmptyHeader, Body |-> ""]
Nets == {NetOK, NetConnErr, NetReadErr}

GoodURL == "http://site/a"

\* a descriptor table; a field given as Nil is absent
Desc(method, url, hdr, data) ==
    Tbl(<<>>, SelectSeq(<<<<"method", method>>, <<"url", url>>,
                          <<"header", hdr>>, <<"data", data>>>>,
                        LAMBDA p : p[2].t # "nil"))

\* a table of strings from <<key, string>> pairs
StrTbl(pairs) == Tbl(<<>>, [i \in 1..Len(pairs) |-> <<pairs[i][1], Str(pairs[i][2])>>])
\* an array of strings
StrList(ss) == Tbl([i \in 1..Len(ss) |-> Str(ss[i])], <<>>)

PlainDesc == Desc(Str("GET"), Str(GoodURL), Nil, Nil)
DataTbl == StrTbl(<<<<"user", "u">>>>)

\* records a script may hand back
M1 == UD("Manga", Rec(0, "", "m1"))
M2 == UD("Manga", Rec(7, "other", "m2"))
C1 == UD("Chapter", Rec(0, "", "c1"))
C2 == UD("Chapter", Rec(7, "other", "c2"))
Junk == Str("junk")
Elems == {M1, M2, C1, C2, Junk}
\* the elements of the generated lists: a Manga, a Chapter, no record
ListElems == {M2, C1, Junk}

\* a failing entry point, results that are no table, a well-formed descriptor
DescSimple == {Fault, Ok(Nil), Ok(Num(1)), Ok(PlainDesc)}

\* five entries, two of them no Manga
FiveEntries == Tbl(<<M1, Junk, M2, C1, M1>>, <<>>)
\* five entries, two of them no Chapter
FiveChapters == Tbl(<<C1, M1, C2, Junk, C1>>, <<>>)

ListOuts ==
    {Fault, Ok(Nil), Ok(FiveEntries), Ok(FiveChapters), Ok(Tbl(<<M1>>, <<<<"x", M2>>>>))}
    \cup {Ok(Tbl(s, <<>>)) : s \in SeqsUpTo(ListElems, MaxList)}

SingleOuts == {Fault, Ok(Nil), Ok(Tbl(<<M1>>, <<>>))} \cup {Ok(e) : e \in Elems}

LoginSimple ==
    {Fault, Ok(Nil),
     Ok(Tbl(<<>>, <<<<"User-Agent", StrList(<<"session-ua">>)>>>>)),
     Ok(Tbl(<<>>, <<<<"Cookie", StrList(<<"a", "b">>)>>>>))}

InputIDs == {42, 7}

ScriptFails == [name |-> Fault, doFile |-> [ok |-> FALSE, rets |-> <<>>], baseURL |-> Fault]
Script(rets, name, baseURL) ==
    [name |-> name, doFile |-> [ok |-> TRUE, rets |-> rets], baseURL |-> baseURL]

ScriptsSimple ==
    {ScriptFails, Script(<<>>, Fault, Fault),
     Script(<<>>, Ok(Str("mangasrc")), Ok(Str("http://site")))}

----------------------------------------------------------------------------
(* State machine: one caller, every public call runs to its return *)

NoCall ==
    [err |-> "none", bnd |-> "", req |-> NoReq, net |-> NetOK, sent |-> FALSE,
     resp |-> NoResp, dOut |-> Fault, built |-> FALSE, steps |-> <<>>,
     result |-> <<>>, pOut |-> Fault, nParse |-> 0,
     op |-> "none", arg |-> 0, preHeader |-> EmptyHeader, preDepth |-> 0]

Threads == {1, 2}
\* locals of a caller: the operation, the value its last script call returned
\* (own), the value it then read from the stack (read, once rd), the request,
\* the response, and what it returned
Idle == [err |-> "none", req |-> NoReq, resp |-> NoResp, result |-> <<>>, op |-> "none",
         arg |-> 0, own |-> Nil, read |-> Nil, rd |-> FALSE]

Init ==
    /\ phase = "new"
    /\ Name = ""
    /\ URL = ""
    /\ lstate = "none"
    /\ stack = <<>>
    /\ header = EmptyHeader
    /\ last = NoCall
    /\ pc = [t \in Threads |-> "idle"]
    /\ loc = [t \in Threads |-> Idle]

\* the stack as the next call finds it
Aged(stk) == [i \in 1..Len(stk) |->
                IF stk[i].t \in {"tbl", "ud"} THEN Ref(stk[i].t) ELSE stk[i]]

Load(Scripts) ==
    /\ phase = "new"
    /\ \E sc \in Scripts :
         LET r == LoadSourceFromPath(sc) IN
         /\ phase' = r.phase
         /\ Name' = r.Name
         /\ URL' = r.URL
         /\ lstate' = r.lstate
         /\ stack' = Aged(r.stack)
         /\ last' = [NoCall EXCEPT !.op = "Load", !.err = r.err]
    /\ UNCHANGED <<header, pc, loc>>

\* a public call may start: the source was returned by Load, and the two
\* values the call may push fit under the bound
CanCall == phase = "loaded" /\ Len(stack) + 2 <= MaxStack

\* the call returns r; of the answers a, those the call did not ask for are
\* not recorded
Return(op, arg, a, r) ==
    /\ stack' = Aged(r.stack)
    /\ header' = r.header
    /\ last' = [err |-> r.err,
                bnd |-> IF r.req.body.enc = "multipart" THEN a.bnd ELSE "",
                req |-> r.req,
                net |-> IF r.sent THEN a.net ELSE NetOK,
                sent |-> r.sent, resp |-> r.resp, dOut |-> a.dOut,
                built |-> r.built, steps |-> r.steps, result |-> r.result,
                pOut |-> IF r.nParse = 1 THEN a.pOut ELSE Fault,
                nParse |-> r.nParse, op |-> op, arg |-> arg,
                preHeader |-> header, preDepth |-> Len(stack)]
    /\ UNCHANGED <<phase, Name, URL, lstate, pc, loc>>

\* The answers that matter to a call starting now: the boundary is drawn only
\* when a body is encoded, the network is asked only when a request was
\* built, the parsing entry point only when a response came back.
BndsFor(dOut, B) ==
    LET c  == callLuaFunc(stack, dOut)
        b0 == CHOOSE b \in B : TRUE
    IN IF c.err \/ createRequest(c.stack, header, b0).req.body = EmptyBody
       THEN {b0} ELSE B

NetsFor(dOut, bnd, N) ==
    LET c == callLuaFunc(stack, dOut)
    IN IF ~c.err /\ createRequest(c.stack, header, bnd).ok THEN N ELSE {NetOK}

ParsesFor(dOut, bnd, net, P) ==
    LET c == callLuaFunc(stack, dOut)
        r == createRequest(c.stack, header, bnd)
    IN IF ~c.err /\ r.ok /\ doRequest(r.req, net).ok THEN P ELSE {Fault}

Answer(dOut, bnd, net, pOut) == [bnd |-> bnd, net |-> net, dOut |-> dOut, pOut |-> pOut]

CallGetLatestUpdates(D, B, N, P) ==
    /\ CanCall
    /\ \E dOut \in D : \E bnd \in BndsFor(dOut, B) : \E net \in NetsFor(dOut, bnd, N) :
         \E pOut \in ParsesFor(dOut, bnd, net, P) :
         LET a == Answer(dOut, bnd, net, pOut) IN
         Return("GetLatestUpdates", 0, a,
                GetLatestUpdates(stack, header, Name, a.dOut, a.bnd, a.net, a.pOut))

CallGetMangaDetails(D, B, N, P) ==
    /\ CanCall
    /\ \E id \in InputIDs : \E dOut \in D : \E bnd \in BndsFor(dOut, B) : \E net \in NetsFor(dOut, bnd, N) :
         \E pOut \in ParsesFor(dOut, bnd, net, P) :
         LET a == Answer(dOut, bnd, net, pOut) IN
         Return("GetMangaDetails", id, a,
                GetMangaDetails(stack, header, Name, id, a.dOut, a.bnd, a.net, a.pOut))

CallGetChapters(D, B, N, P) ==
    /\ CanCall
    /\ \E dOut \in D : \E bnd \in BndsFor(dOut, B) : \E net \in NetsFor(dOut, bnd, N) :
         \E pOut \in ParsesFor(dOut, bnd, net, P) :
         LET a == Answer(dOut, bnd, net, pOut) IN
         Return("GetChapters", 0, a,
                GetChapters(stack, header, Name, a.dOut, a.bnd, a.net, a.pOut))

CallGetChapter(D, B, N, P) ==
    /\ CanCall
    /\ \E id \in InputIDs : \E dOut \in D : \E bnd \in BndsFor(dOut, B) : \E net \in NetsFor(dOut, bnd, N) :
         \E pOut \in ParsesFor(dOut, bnd, net, P) :
         LET a == Answer(dOut, bnd, net, pOut) IN
         Return("GetChapter", id, a,
                GetChapter(stack, header, id, a.dOut, a.bnd, a.net, a.pOut))

CallLogin(D, B, N, P) ==
    /\ CanCall
    /\ \E dOut \in D : \E bnd \in BndsFor(dOut, B) : \E net \in NetsFor(dOut, bnd, N) :
         \E pOut \in ParsesFor(dOut, bnd, net, P) :
         LET a == Answer(dOut, bnd, net, pOut) IN
         Return("Login", 0, a,
                Login(stack, header, a.dOut, a.bnd, a.net, a.pOut))

CallFetchManga(D, B, N, P) ==
    /\ CanCall
    /\ \E dOut \in D : \E bnd \in BndsFor(dOut, B) : \E net \in NetsFor(dOut, bnd, N) :
         \E pOut \in ParsesFor(dOut, bnd, net, P) :
         LET a == Answer(dOut, bnd, net, pOut) IN
         Return("FetchManga", 0, a,
                FetchManga(stack, header, Name, a.dOut, a.bnd, a.net, a.pOut))

\* records: simple descriptors, every shape of parse result
Next ==
    \/ Load(ScriptsSimple)
    \/ CallGetLatestUpdates(DescSimple, {"b1"}, Nets, ListOuts)
    \/ CallGetMangaDetails(DescSimple, {"b1"}, Nets, SingleOuts)
    \/ CallGetChapters(DescSimple, {"b1"}, Nets, ListOuts)
    \/ CallGetChapter(DescSimple, {"b1"}, Nets, SingleOuts)
    \/ CallLogin(DescSimple, {"b1"}, Nets, LoginSimple)
    \/ CallFetchManga(DescSimple, {"b1"}, Nets, ListOuts)

Spec == Init /\ [][Next]_vars

----------------------------------------------------------------------------
(* Properties of the record-returning operations, checked under Spec *)

ListOps == {"GetLatestUpdates", "GetChapters", "FetchManga"}
SingleOps == {"GetMangaDetails", "GetChapter"}
PublicOps == ListOps \cup SingleOps \cup {"Login"}
RecordType(op) == IF op \in {"GetChapters", "GetChapter"} THEN "Chapter" ELSE "Manga"

\* the last call's parsing entry point ran and returned a value
ParseReturned == last.nParse = 1 /\ last.pOut.ok

\* C5: when get_manga_details or get_chapter returns a value that is no
\* handle of the expected record type, GetMangaDetails / GetChapter returns a
\* ProtocolError and no record, and raises no host-level fault.
C5_SingularMalformedIsProtocolError ==
    (last.op \in SingleOps /\ ParseReturned
        /\ ~IsRecord(last.pOut.v, RecordType(last.op)))
    => (last.err = "Protocol" /\ last.result = <<>>)

\* C7: a successful GetChapter returns one Chapter whose ID is the caller's
\* ID, and whose source is the one the script set, not the connector's name.
C7_GetChapterCopiesID ==
    (last.op = "GetChapter" /\ last.err = "none")
    => /\ Len(last.result) = 1
       /\ last.result[1].ty = "Chapter"
       /\ last.result[1].rec.ID = last.arg
       /\ last.result[1].rec.Source = last.pOut.v.rec.Source
       /\ last.result[1].rec.Title = last.pOut.v.rec.Title

\* a GetChapter succeeded on a chapter the script gave another ID and a
\* source that is not the connector's name
C7_Witness ==
    /\ last.op = "GetChapter" /\ last.err = "none"
    /\ last.pOut.v.rec.ID # last.arg
    /\ last.pOut.v.rec.ID # 0
    /\ last.result[1].rec.Source # Name

\* C8: a successful GetMangaDetails returns one Manga whose source is the
\* connector's name and whose ID is the caller's ID.
C8_GetMangaDetailsStamps ==
    (last.op = "GetMangaDetails" /\ last.err = "none")
    => /\ Len(last.result) = 1
       /\ last.result[1].ty = "Manga"
       /\ last.result[1].rec.Source = Name
       /\ last.result[1].rec.ID = last.arg
       /\ last.result[1].rec.Title = last.pOut.v.rec.Title

\* a GetMangaDetails succeeded on a record the script gave another source and
\* another ID
C8_Witness ==
    /\ last.op = "GetMangaDetails" /\ last.err = "none"
    /\ last.pOut.v.rec.Source \notin {"", Name}
    /\ last.pOut.v.rec.ID # last.arg

\* the values of a table in visiting order, and those that are records of
\* type ty
Values(tb) == [i \in 1..Len(ForEach(tb)) |-> ForEach(tb)[i][2]]
ValidValues(tb, ty) == SelectSeq(Values(tb), LAMBDA v : IsRecord(v, ty))

\* C9: when the parsing entry point of a list operation returns a table, the
\* operation returns without error exactly the table's valid records, in table
\* order (source stamped by GetLatestUpdates and GetChapters).
C9_ListSkipsMalformed ==
    (last.op \in ListOps /\ ParseReturned /\ last.pOut.v.t = "tbl")
    => LET want == ValidValues(last.pOut.v, RecordType(last.op)) IN
       /\ last.err = "none"
       /\ Len(last.result) = Len(want)
       /\ \A i \in 1..Len(want) :
            /\ last.result[i].ty = want[i].ty
            /\ last.result[i].rec.ID = want[i].rec.ID
            /\ last.result[i].rec.Title = want[i].rec.Title
            /\ last.result[i].rec.Source =
                 IF last.op = "FetchManga" THEN want[i].rec.Source ELSE Name

\* a list operation returned three records out of five entries
C9_Witness ==
    /\ last.op \in ListOps /\ ParseReturned /\ last.pOut.v.t = "tbl"
    /\ Len(Values(last.pOut.v)) = 5
    /\ Len(last.result) = 3
    /\ last.err = "none"

\* C13: every public call makes its calls in the order describe, HTTP, parse,
\* each at most once and the describing call exactly once; the HTTP call is
\* made only for a request built from a returned descriptor, the parsing call
\* only on a response; the first error ends the call, which then returns no
\* record and, for Login, leaves the session header as it was.
C13_DescribeExecuteParseOnce ==
    last.op \in PublicOps =>
      /\ last.steps \in {<<"describe">>, <<"describe", "http">>,
                         <<"describe", "http", "parse">>}
      /\ Len(last.steps) >= 2 <=> (last.dOut.ok /\ last.built)
      /\ last.sent => Len(last.steps) >= 2
      /\ Len(last.steps) = 3 <=> (last.built /\ last.sent /\ last.net.kind = "ok")
      /\ Len(last.steps) = 3 => last.resp = [Header |-> last.net.Header,
                                             Body |-> last.net.Body]
      /\ last.nParse = IF Len(last.steps) = 3 THEN 1 ELSE 0
      /\ ~last.dOut.ok => last.err = "Script"
      /\ (last.dOut.ok /\ ~last.built) => last.err = "Protocol"
      /\ (last.built /\ Len(last.steps) = 2) => last.err = "Transport"
      /\ last.err \in {"Script", "Protocol", "Transport"} =>
            /\ last.result = <<>>
            /\ last.op = "Login" => header = last.preHeader

\* a call whose request reached the network and failed there returned the
\* transport error after one HTTP call, without parsing
C13_Witness ==
    /\ last.op \in PublicOps
    /\ last.err = "Transport" /\ last.sent
    /\ last.steps = <<"describe", "http">>
    /\ last.net.kind = "readErr"

\* C14: when the describing entry point returns a value that is no table, the
\* call returns a ProtocolError, performs no HTTP request and does not call
\* the parsing entry point.
C14_NonTableDescriptorIsProtocolError ==
    (last.op \in PublicOps /\ last.dOut.ok /\ last.dOut.v.t # "tbl")
    => /\ last.err = "Protocol"
       /\ ~last.built /\ ~last.sent
       /\ last.steps = <<"describe">>
       /\ last.nParse = 0
       /\ last.result = <<>>

\* a call whose describing entry point returned nil ended with a
\* ProtocolError
C14_Witness ==
    /\ last.op \in PublicOps
    /\ last.dOut.ok /\ last.dOut.v.t = "nil"
    /\ last.err = "Protocol"

\* C15: when the parsing entry point of a list operation returns a value
\* that is no table, the operation fails with a ProtocolError.
C15_NonTableListIsProtocolError ==
    (last.op \in ListOps /\ ParseReturned /\ last.pOut.v.t # "tbl")
    => last.err = "Protocol"

\* what the public method op returns
Dispatch(op, stk, hdr, name, arg, a) ==
    CASE op = "GetLatestUpdates" ->
           GetLatestUpdates(stk, hdr, name, a.dOut, a.bnd, a.net, a.pOut)
      [] op = "GetMangaDetails" ->
           GetMangaDetails(stk, hdr, name, arg, a.dOut, a.bnd, a.net, a.pOut)
      [] op = "GetChapters" ->
           GetChapters(stk, hdr, name, a.dOut, a.bnd, a.net, a.pOut)
      [] op = "GetChapter" ->
           GetChapter(stk, hdr, arg, a.dOut, a.bnd, a.net, a.pOut)
      [] op = "Login" -> Login(stk, hdr, a.dOut, a.bnd, a.net, a.pOut)
      [] op = "FetchManga" ->
           FetchManga(stk, hdr, name, a.dOut, a.bnd, a.net, a.pOut)

\* the stack without the values the last call left on it
StackBeforeLast == SubSeq(stack, 1, last.preDepth)

\* a call fails with a ProtocolError: Name, URL and the session header stay
FailedCallKeeps ==
    (last'.op \in PublicOps /\ last'.err = "Protocol")
    => (Name' = Name /\ URL' = URL /\ header' = header)

\* a call follows one that failed with a ProtocolError: it returns what the
\* same call, given the same answers, returns from the state before the
\* failed call
NextCallAsIfNotMade ==
    (last.op \in PublicOps /\ last.err = "Protocol" /\ last'.op \in PublicOps)
    => LET r == Dispatch(last'.op, StackBeforeLast, last.preHeader, Name,
                         last'.arg, last')
       IN /\ last'.err = r.err
          /\ last'.result = r.result
          /\ last'.req = r.req
          /\ last'.steps = r.steps
          /\ last'.sent = r.sent
          /\ header' = r.header

\* C17: a call that fails with a ProtocolError leaves Name, URL and the
\* session header unchanged, and the call made after it returns the result it
\* would have returned had the failed call not been made.
C17_UsableAfterProtocolError ==
    [][FailedCallKeeps /\ NextCallAsIfNotMade]_vars

\* a call returned a record from a stack whose top was left there by a call
\* that failed with a ProtocolError (a descriptor that was the number 1)
C17_Witness ==
    /\ last.op \in PublicOps /\ last.err = "none"
    /\ last.result # <<>>
    /\ last.preDepth >= 1
    /\ stack[last.preDepth] = Num(1)

\* C20: Load leaves the Lua stack empty, and every public call leaves it at
\* the depth it found.
C20_StackBalanced ==
    /\ last.op = "Load" => Len(stack) = 0
    /\ last.op \in PublicOps => Len(stack) = last.preDepth

\* C11: no public call on a loaded source ends in a host-level fault: a
\* script fault, or a script result of an unexpected type, comes back to the
\* caller as an error value.
C11_NoHostFault ==
    last.op \in PublicOps => last.err # "Panic"

----------------------------------------------------------------------------
(* Requests: every shape of descriptor, few parse results *)

HdrPairs == {<<"User-Agent", "ua1">>, <<"cookie", "c1">>, <<"Cookie", "c2">>}
HdrTables == {StrTbl(s) : s \in PairSeqs(HdrPairs, MaxHdr)}
MultipartHdr == StrTbl(<<<<"Content-Type", Multipart>>>>)

DescRich ==
    {Fault}
    \cup {Ok(Desc(Str("GET"), Str(GoodURL), h, Nil)) :
             h \in {Nil, MultipartHdr} \cup HdrTables}
    \cup {Ok(Desc(Str("GET"), Str(GoodURL), h, DataTbl)) :
             h \in {Nil, MultipartHdr, StrTbl(<<<<"Content-Type", "text/plain">>>>)}}
    \cup {Ok(Desc(Nil, Str(GoodURL), Nil, Nil)),
          Ok(Desc(Str("GET"), Nil, Nil, Nil)),
          Ok(Desc(Str("GET"), Str(":bad"), Nil, Nil)),
          Ok(Desc(Str("BAD METHOD"), Str(GoodURL), Nil, Nil))}

NetsFew == {NetOK, NetConnErr}

LoginSession ==
    {Fault,
     Ok(Tbl(<<>>, <<<<"User-Agent", StrList(<<"session-ua">>)>>,
                    <<"Cookie", StrList(<<"a", "b">>)>>>>)),
     Ok(Tbl(<<>>, <<<<"Content-Type", StrList(<<Multipart>>)>>>>))}

NextReq ==
    \/ Load(ScriptsSimple)
    \/ CallGetLatestUpdates(DescRich, Boundaries, {NetOK}, {Ok(Tbl(<<M1>>, <<>>))})
    \/ CallGetMangaDetails(DescRich, Boundaries, {NetOK}, {Ok(M1)})
    \/ CallGetChapters(DescRich, Boundaries, {NetOK}, {Ok(Tbl(<<C1>>, <<>>))})
    \/ CallGetChapter(DescRich, Boundaries, {NetOK}, {Ok(C1)})
    \/ CallLogin(DescRich, Boundaries, {NetOK}, LoginSession)
    \/ CallFetchManga(DescRich, Boundaries, {NetOK}, {Ok(Tbl(<<M1>>, <<>>))})

SpecReq == Init /\ [][NextReq]_vars

\* the entries of the last descriptor's header table, as <<name, value>>
DescHeader ==
    IF last.dOut.ok /\ last.dOut.v.t = "tbl"
          /\ RawGetString(last.dOut.v, "header").t = "tbl"
    THEN LET ps == ForEach(RawGetString(last.dOut.v, "header"))
         IN [i \in 1..Len(ps) |-> <<LVString(ps[i][1]), LVString(ps[i][2])>>]
    ELSE <<>>

\* no other entry of ps has the name of entry i, up to case
OnlyEntry(ps, i) ==
    \A j \in 1..Len(ps) : j # i => Canon(ps[j][1]) # Canon(ps[i][1])

\* C2 as stated: every entry of the descriptor's header table is the value of
\* that header on the request built, whatever the session or the default hold.
C2_DescriptorHeaderWins ==
    last.built =>
      \A i \in 1..Len(DescHeader) :
         HValues(last.req.header, DescHeader[i][1]) = <<DescHeader[i][2]>>

\* C2 amended: it holds for an entry whose name no other entry shares up to
\* case, unless the entry is Content-Type and the body was multipart-encoded;
\* among entries sharing a name, the request carries the value of one of them.
C2_DescriptorHeaderWinsAmended ==
    last.built =>
      \A i \in 1..Len(DescHeader) :
         (Canon(DescHeader[i][1]) = "Content-Type" /\ last.req.body.enc = "multipart")
         \/ /\ \E j \in 1..Len(DescHeader) :
                 /\ Canon(DescHeader[j][1]) = Canon(DescHeader[i][1])
                 /\ HValues(last.req.header, DescHeader[i][1]) = <<DescHeader[j][2]>>
            /\ OnlyEntry(DescHeader, i) =>
                 HValues(last.req.header, DescHeader[i][1]) = <<DescHeader[i][2]>>

\* a request was built from a descriptor naming User-Agent and one cookie
\* header while the session held other cookies
C2_Witness ==
    /\ last.built
    /\ Len(HValues(last.preHeader, "Cookie")) = 2
    /\ \E i, j \in 1..Len(DescHeader) :
         /\ Canon(DescHeader[i][1]) = "Cookie" /\ OnlyEntry(DescHeader, i)
         /\ Canon(DescHeader[j][1]) = "User-Agent"

\* C3: without a User-Agent in the descriptor, the request carries the
\* session's User-Agent when the session has one, the default otherwise.
C3_SessionUserAgentBeatsDefault ==
    (last.built /\ \A i \in 1..Len(DescHeader) : Canon(DescHeader[i][1]) # "User-Agent")
    => HValues(last.req.header, "User-Agent") =
         IF HValues(last.preHeader, "User-Agent") # <<>>
         THEN HValues(last.preHeader, "User-Agent")
         ELSE <<DefaultUserAgent>>

\* C10: a descriptor table without method or without url fails the call with
\* a ProtocolError before any request is built or sent.
C10_MissingMethodOrURLIsProtocolError ==
    (/\ last.op \in PublicOps
     /\ last.dOut.ok /\ last.dOut.v.t = "tbl"
     /\ \/ RawGetString(last.dOut.v, "method").t = "nil"
        \/ RawGetString(last.dOut.v, "url").t = "nil")
    => (last.err = "Protocol" /\ ~last.built /\ ~last.sent)

\* the data field of the last descriptor
DescData ==
    IF last.dOut.ok /\ last.dOut.v.t = "tbl"
    THEN RawGetString(last.dOut.v, "data") ELSE Nil

\* the Content-Type entries of the last descriptor's header table
DescContentTypes == SelectSeq(DescHeader, LAMBDA e : Canon(e[1]) = "Content-Type")

\* the Content-Type the merge of default, session and descriptor arrives at:
\* the descriptor's when it names one, else the session's first value, else
\* none (the default header set has no Content-Type)
ResolvedContentType ==
    IF DescContentTypes # <<>> THEN DescContentTypes[Len(DescContentTypes)][2]
    ELSE HGet(last.preHeader, "Content-Type")

\* C16: when the resolved Content-Type is multipart/form-data and the
\* descriptor has a data table, the body of the request is the multipart
\* encoding of the data fields and its Content-Type is the encoder's value,
\* which carries the boundary; otherwise the body is empty and the
\* Content-Type is the resolved one.
C16_MultipartBody ==
    last.built =>
      IF ResolvedContentType = "multipart/form-data" /\ DescData.t = "tbl"
      THEN /\ last.req.body = [enc |-> "multipart", fields |-> Fields(DescData)]
           /\ last.bnd \in Boundaries
           /\ HValues(last.req.header, "Content-Type")
                = <<"multipart/form-data; boundary=" \o last.bnd>>
      ELSE /\ last.req.body = EmptyBody
           /\ HGet(last.req.header, "Content-Type") = ResolvedContentType

\* a body was encoded although the descriptor itself gave the Content-Type,
\* and the encoder's value replaced the descriptor's
C16_Witness ==
    /\ last.built
    /\ DescContentTypes = <<<<"Content-Type", "multipart/form-data">>>>
    /\ last.req.body.enc = "multipart"
    /\ last.req.body.fields = <<<<"user", "u">>>>
    /\ HValues(last.req.header, "Content-Type")
         = <<"multipart/form-data; boundary=b2">>

\* the header names of the last login result
LoginNames ==
    IF last.pOut.ok /\ last.pOut.v.t = "tbl"
    THEN {Canon(LVString(ForEach(last.pOut.v)[i][1])) :
             i \in 1..Len(ForEach(last.pOut.v))}
    ELSE {}

----------------------------------------------------------------------------
(* Login: every shape of login result, plain descriptors *)

LoginPairs ==
    {<<"Cookie", StrList(<<"a", "b">>)>>, <<"Cookie", StrList(<<>>)>>,
     <<"Cookie", Str("x")>>, <<"cookie", StrList(<<"a">>)>>,
     <<"User-Agent", StrList(<<"session-ua">>)>>, <<"User-Agent", StrList(<<>>)>>}

LoginRich ==
    {Fault, Ok(Nil)} \cup {Ok(Tbl(<<>>, s)) : s \in PairSeqs(LoginPairs, MaxLogin)}

DescPlain == {Fault, Ok(Nil), Ok(PlainDesc)}

NextLogin ==
    \/ Load(ScriptsSimple)
    \/ CallGetLatestUpdates(DescPlain, {"b1"}, NetsFew, {Ok(Tbl(<<M1>>, <<>>))})
    \/ CallGetMangaDetails(DescPlain, {"b1"}, NetsFew, {Ok(M1)})
    \/ CallGetChapters(DescPlain, {"b1"}, NetsFew, {Ok(Tbl(<<C1>>, <<>>))})
    \/ CallGetChapter(DescPlain, {"b1"}, NetsFew, {Ok(C1)})
    \/ CallLogin(DescPlain, {"b1"}, NetsFew, LoginRich)
    \/ CallFetchManga(DescPlain, {"b1"}, NetsFew, {Ok(Tbl(<<M1>>, <<>>))})

SpecLogin == Init /\ [][NextLogin]_vars

\* the entries of the last login result, as <<name, value>>
LoginResult ==
    LET ps == ForEach(last.pOut.v)
    IN [i \in 1..Len(ps) |-> <<LVString(ps[i][1]), ps[i][2]>>]

\* the strings of a list
Strings(tb) == [j \in 1..Len(Values(tb)) |-> LVString(Values(tb)[j])]

\* the header names the session may hold
Held == DOMAIN header \cup DOMAIN last.preHeader

\* C1 as stated: after a successful Login, every key the result gives a list
\* holds exactly that list, and every key the result does not mention holds
\* what it held before.
C1_LoginReplaces ==
    (last.op = "Login" /\ last.err = "none") =>
      /\ \A i \in 1..Len(LoginResult) :
           LoginResult[i][2].t = "tbl"
           => HValues(header, LoginResult[i][1]) = Strings(LoginResult[i][2])
      /\ \A x \in Held :
           (\A i \in 1..Len(LoginResult) : Canon(LoginResult[i][1]) # x)
           => HValues(header, x) = HValues(last.preHeader, x)

\* the entries of the login result whose value is a list
LoginLists == SelectSeq(LoginResult, LAMBDA e : e[2].t = "tbl")

\* C1 amended: the first part holds for a key that no other list-valued key of
\* the result equals up to case.
C1_LoginReplacesAmended ==
    (last.op = "Login" /\ last.err = "none") =>
      /\ \A i \in 1..Len(LoginLists) :
           OnlyEntry(LoginLists, i)
           => HValues(header, LoginLists[i][1]) = Strings(LoginLists[i][2])
      /\ \A x \in Held :
           (\A i \in 1..Len(LoginResult) : Canon(LoginResult[i][1]) # x)
           => HValues(header, x) = HValues(last.preHeader, x)

\* a Login replaced a two-element cookie list by a one-element list and left
\* the session's User-Agent, which its result did not mention
C1_Witness ==
    /\ last.op = "Login" /\ last.err = "none"
    /\ HValues(last.preHeader, "Cookie") = <<"a", "b">>
    /\ HValues(header, "Cookie") = <<"a">>
    /\ HValues(last.preHeader, "User-Agent") = <<"session-ua">>
    /\ HValues(header, "User-Agent") = <<"session-ua">>
    /\ \A i \in 1..Len(LoginResult) : Canon(LoginResult[i][1]) = "Cookie"

\* C19: a Login that fails, in whichever phase, leaves the session header
\* exactly as it was before the call.
C19_FailedLoginKeepsSession ==
    (last.op = "Login" /\ last.err # "none") => header = last.preHeader

\* a Login failed because its login entry point returned a value that is no
\* table, while the session held cookies and a User-Agent
C19_Witness ==
    /\ last.op = "Login" /\ last.err = "Protocol"
    /\ last.nParse = 1 /\ last.pOut.ok /\ last.pOut.v.t # "tbl"
    /\ HValues(header, "Cookie") = <<"a", "b">>
    /\ HValues(header, "User-Agent") = <<"session-ua">>

----------------------------------------------------------------------------
(* Loading: every shape of script, plain calls *)

NameOuts == {Fault, Ok(Str("mangasrc")), Ok(Str("")), Ok(Num(7)), Ok(Nil)}
URLOuts == {Fault, Ok(Str("http://site")), Ok(Str("")), Ok(Tbl(<<>>, <<>>))}

ScriptsRich ==
    {ScriptFails}
    \cup {Script(r, n, u) : r \in {<<>>, <<Str("mod")>>}, n \in NameOuts, u \in URLOuts}

NextLoad ==
    \/ Load(ScriptsRich)
    \/ CallGetLatestUpdates(DescPlain, {"b1"}, NetsFew, {Ok(Tbl(<<M1>>, <<>>))})
    \/ CallGetMangaDetails(DescPlain, {"b1"}, NetsFew, {Ok(M1)})
    \/ CallGetChapters(DescPlain, {"b1"}, NetsFew, {Ok(Tbl(<<C1>>, <<>>))})
    \/ CallGetChapter(DescPlain, {"b1"}, NetsFew, {Ok(C1)})
    \/ CallLogin(DescPlain, {"b1"}, NetsFew, LoginSimple)
    \/ CallFetchManga(DescPlain, {"b1"}, NetsFew, {Ok(Tbl(<<M1>>, <<>>))})

SpecLoad == Init /\ [][NextLoad]_vars

\* C6: Load ends either with a Source whose Name and URL are non-empty or
\* with an error returned to the caller.
C6_LoadNonEmptyOrError ==
    phase # "new" =>
      \/ phase = "loaded" /\ Name # "" /\ URL # ""
      \/ phase = "loadError"

\* C12: whenever Load returns an error, the Lua state it created has been
\* closed.
C12_FailedLoadClosesState ==
    phase = "loadError" => lstate = "closed"

----------------------------------------------------------------------------
(* Two callers on one Source.  No method of Source takes a lock, so the     *)
(* statements of two calls interleave: the script call that describes, the *)
(* read of the stack top in createRequest, the HTTP call, the script call  *)
(* that parses, the read of the stack top after it.                        *)

OtherDesc == Desc(Str("GET"), Str("http://site/b"), Nil, Nil)
DescTwo == {Fault, Ok(PlainDesc), Ok(OtherDesc)}

ParseFew(op) ==
    CASE op \in {"GetLatestUpdates", "FetchManga"} -> {Ok(Tbl(<<M1>>, <<>>))}
      [] op = "GetChapters" -> {Ok(Tbl(<<C1>>, <<>>))}
      [] op = "GetMangaDetails" -> {Ok(M1)}
      [] op = "GetChapter" -> {Ok(C1)}
      [] op = "Login" -> {Ok(Tbl(<<>>, <<<<"Cookie", StrList(<<"a", "b">>)>>>>))}

\* the values a caller at position p has still to push
Remaining(p) == IF p \in {"described", "built", "responded"} THEN 1 ELSE 0

RECURSIVE Pending(_)
Pending(T) ==
    IF T = {} THEN 0
    ELSE LET t == CHOOSE x \in T : TRUE IN Remaining(pc[t]) + Pending(T \ {t})

CanStart(t) ==
    /\ phase = "loaded"
    /\ pc[t] = "idle"
    /\ Len(stack) + 2 + Pending(Threads \ {t}) <= MaxStack

\* caller t returns
Finish(t, l, stk, hdr) ==
    /\ pc' = [pc EXCEPT ![t] = "idle"]
    /\ loc' = [loc EXCEPT ![t] = l]
    /\ stack' = IF \A u \in Threads \ {t} : pc[u] = "idle" THEN Aged(stk) ELSE stk
    /\ header' = hdr

Goto(t, p, l, stk) ==
    /\ pc' = [pc EXCEPT ![t] = p]
    /\ loc' = [loc EXCEPT ![t] = l]
    /\ stack' = stk
    /\ header' = header

CDescribe(t, D) ==
    /\ CanStart(t)
    /\ \E op \in PublicOps, dOut \in D :
         LET c == callLuaFunc(stack, dOut)
             l == [Idle EXCEPT !.op = op,
                               !.arg = IF op \in SingleOps THEN 42 ELSE 0,
                               !.own = dOut.v]
         IN IF c.err THEN Finish(t, [l EXCEPT !.err = "Script"], c.stack, header)
            ELSE Goto(t, "described", l, c.stack)
    /\ UNCHANGED <<phase, Name, URL, lstate, last>>

CCreate(t, B) ==
    /\ pc[t] = "described"
    /\ \E bnd \in B :
         LET r == createRequest(stack, header, bnd)
             l == [loc[t] EXCEPT !.read = Get(stack, -1), !.rd = TRUE, !.req = r.req]
         IN IF r.ok THEN Goto(t, "built", l, stack)
            ELSE Finish(t, [l EXCEPT !.err = "Protocol"], stack, header)
    /\ UNCHANGED <<phase, Name, URL, lstate, last>>

CDo(t, N) ==
    /\ pc[t] = "built"
    /\ \E net \in N :
         LET d == doRequest(loc[t].req, net)
             l == [loc[t] EXCEPT !.resp = d.resp]
         IN IF d.ok THEN Goto(t, "responded", l, stack)
            ELSE Finish(t, [l EXCEPT !.err = "Transport"], stack, header)
    /\ UNCHANGED <<phase, Name, URL, lstate, last>>

CParse(t) ==
    /\ pc[t] = "responded"
    /\ \E pOut \in ParseFew(loc[t].op) \cup {Fault} :
         LET c == callLuaFunc(stack, pOut)
             l == [loc[t] EXCEPT !.own = pOut.v, !.rd = FALSE]
         IN IF c.err THEN Finish(t, [l EXCEPT !.err = "Script"], c.stack, header)
            ELSE Goto(t, "parsed", l, c.stack)
    /\ UNCHANGED <<phase, Name, URL, lstate, last>>

\* the statements after the parsing script call, on the stack as it is now
Convert(op, arg, stk, hdr, name) ==
    CASE op = "GetLatestUpdates" -> [header |-> hdr] @@ listRead(stk, name, "Manga", TRUE)
      [] op = "GetChapters" -> [header |-> hdr] @@ listRead(stk, name, "Chapter", TRUE)
      [] op = "FetchManga" -> [header |-> hdr] @@ listRead(stk, name, "Manga", FALSE)
      [] op = "Login" -> [result |-> <<>>] @@ loginRead(stk, hdr)
      [] op = "GetMangaDetails" ->
           LET p == mangaRead(stk, name) IN
           IF p.err # "none" THEN [header |-> hdr] @@ p
           ELSE [stack |-> SetTop(p.stack, SetID(p.result[1], arg)), header |-> hdr,
                 err |-> "none",
                 result |-> <<SetID(p.result[1], arg)>>]
      [] op = "GetChapter" ->
           LET p == chapterRead(stk) IN
           IF p.err # "none" THEN [header |-> hdr] @@ p
           ELSE [stack |-> SetTop(p.stack, SetID(p.result[1], arg)), header |-> hdr,
                 err |-> "none",
                 result |-> <<SetID(p.result[1], arg)>>]

CConvert(t) ==
    /\ pc[t] = "parsed"
    /\ LET r == Convert(loc[t].op, loc[t].arg, stack, header, Name)
           l == [loc[t] EXCEPT !.read = Get(stack, -1), !.rd = TRUE,
                               !.err = r.err, !.result = r.result]
       IN Finish(t, l, r.stack, r.header)
    /\ UNCHANGED <<phase, Name, URL, lstate, last>>

NextConc ==
    \/ Load(ScriptsSimple)
    \/ \E t \in Threads : CDescribe(t, DescTwo)
    \/ \E t \in Threads : CCreate(t, {"b1"})
    \/ \E t \in Threads : CDo(t, NetsFew)
    \/ \E t \in Threads : CParse(t)
    \/ \E t \in Threads : CConvert(t)

SpecConc == Init /\ [][NextConc]_vars

\* C4: at most one call is in flight on a Source, and every read of the stack
\* top by a call finds the value its own script call returned.
C4_Serialized ==
    /\ Cardinality({t \in Threads : pc[t] # "idle"}) <= 1
    /\ \A t \in Threads : loc[t].rd => loc[t].read = loc[t].own
====
